---- MODULE Spec2Model ----
(***************************************************************************)
(* Provisioning and control plane of screenenv: the Docker provider        *)
(* (port allocation under the cross-process file lock, container           *)
(* lifecycle, health-check polling), the RemoteScreenEnv / Sandbox         *)
(* instance that owns one provider, and the capability calls issued        *)
(* through it by _make_request under the retry wrapper.                    *)
(*                                                                         *)
(* Calls into Docker and Playwright are modelled by their outcomes: a call *)
(* the code wraps in try/except may succeed or raise.                      *)
(***************************************************************************)
EXTENDS Integers, FiniteSets, Sequences, TLC

\* Number of processes that provision on the host.
NumProcs == 2
\* Containers one provider may launch in a run of the model.
MaxLaunch == 2
\* Width of the window of start ports and used ports explored for
\* _get_available_port.
ScanWindow == 3

\* Largest config.timeout explored for _wait_for_vm_ready.
MaxTimeout == 4
\* Largest healthcheck retry_interval explored.
MaxInterval == 2
\* Largest number of failing probes before the first one that succeeds.
MaxFail == 2
\* Longest time one probe takes before its answer or its error is there.
MaxProbeTime == 1

\* Largest retry_times explored for the retry wrapper.
MaxRetryTimes == 3

\* Longest local file explored for the file transfer.
MaxFileLen == 3

\* provider.py:107  `while port < 65354`
ScanLimit == 65354

\* sandbox.py:325 iter_content(chunk_size=8192), scaled to the files explored
ChunkSize == 2

Procs == 1..NumProcs
NoContainer == <<0, 0>>

\* DockerProviderConfig.ports_to_forward; the first one is the endpoint port
\* that the health check and the base URL use.
EndpointPort == ScanLimit - 5
PortsToForward == {EndpointPort, ScanLimit - 2}

VARIABLES
    \* the host
    containers,   \* Docker's containers: records [id, state, hostPorts]
    lock,         \* set of processes holding the lock file
    systemPorts,  \* ports bound by sockets outside Docker
    \* DockerProvider, one per process
    container,    \* self.container: id of the handle, or NoContainer
    ports,        \* self.ports: internal port -> host port
    hcSet,        \* healthcheck endpoint and port are configured
    \* position of each process
    pc,           \* "idle", or the step of start_emulator it is at
    ctx,          \* caller of the running start_emulator
    todo,         \* ports the allocation loop has not visited yet
    err,          \* error raised by the last call, "none" if it returned
    op,           \* last API call of the process
    prevOp,       \* the API call before it
    \* history of the last start_emulator / teardown
    launches,     \* number of containers the provider has launched so far
    launched,     \* container launched by the last start_emulator
    probed,       \* container whose health probe answered 200
    cleanup,      \* stop+remove of the except clause of the last
                  \* start_emulator: "none" (not run), "ok", "failed"
    teardown,     \* stop+remove of the last stop_emulator, likewise
    stopTarget,   \* handle the last stop_emulator found in self.container
    \* RemoteScreenEnv / Sandbox
    mode,         \* "direct": bare provider, "env": owned by an instance
    inst,         \* "new", "handed" (constructor returned), "failed"
    baseUrl,      \* host port in base_url, 0 before it is derived
    playwright,   \* self._playwright: "None", "started", "stopped"
    sent,         \* last HTTP request of _make_request
    closedOnce,   \* close() or kill() has returned on the instance
    \* inputs of one _get_available_port call, and the set holding its result
    aStart, aUsed, aResult,
    \* one call of _wait_for_vm_ready
    wTimeout,     \* config.timeout
    wInterval,    \* healthcheck_config.retry_interval
    wConfigured,  \* healthcheck endpoint and port are both set
    wPlan,        \* check_health calls that return False before one succeeds
    wNever,       \* no check_health call ever succeeds
    wState,       \* "idle", "test" (the while condition), "probe", "sleep",
                  \* "ready" (returned True), "timeout" (raised TimeoutError)
    wNow,         \* time.time() - start_time
    wProbes,      \* HTTP probes issued
    wProbeTime,   \* time spent inside the probes that failed
    wResp,        \* responses the probes got
    wWarned,      \* the warning of the skipped healthcheck was logged
    \* one call of _make_request through the retry wrapper
    rTimes,       \* retry_times
    rBreak,       \* break_on_timeout
    rMethod,      \* method argument of _make_request
    rHeaders,     \* the caller's `headers` keyword: a set holding the dict
    rPassword,    \* self.session_password
    rState,       \* "idle", "loop", "broke", "returned", "raised"
    rAttempt,     \* the loop variable `attempt`
    rCalls,       \* invocations of the wrapped function
    rRetries,     \* "Retrying ..." lines logged
    rSleeps,      \* time.sleep(retry_interval) calls
    rSent,        \* headers of every HTTP request issued
    rOutcomes,    \* answer and outcome of the last invocation
    rLast,        \* error of the last failed invocation
    rResult,      \* what the wrapper returned or raised
    \* RemoteScreenEnv.__init__ arguments
    osType,       \* os_type
    providerType, \* provider_type
    \* the port map as seen from outside
    usedAt,       \* per internal port: the used ports _get_available_port
                  \* saw when it allocated the port's host port
    ipAddr,       \* host_port of the last get_ip_address result, as a set
    \* upload_file_to_remote followed by download_file_from_remote
    fLocal,       \* bytes of the local file
    fPos,         \* read position of the file object opened by upload
    fRemote,      \* set holding the bytes stored at the remote path
    fLocal2,      \* set holding the bytes written to local_dest
    fState,       \* "idle", "upload", "uploaded", "download", "downloaded",
                  \* "failed"
    fTries,       \* attempts of the running _make_request
    \* history of the responses one _make_request call got
    rStatuses,    \* status codes answered so far, 0 for a call that raised
    \* one call of execute_command
    xState,       \* "idle", "called", "returned", "raised"
    xResult,      \* the CommandResponse returned, or the error raised
    \* one call of _wait_and_verify
    vTimeout,     \* timeout
    vInterval,    \* interval
    vElapsed,     \* the local `elapsed`
    vIter,        \* iterations of the while loop started
    vState        \* "idle", "loop", "true", "false" (returned value)

hostVars == <<containers, lock, systemPorts>>
provVars == <<container, ports, hcSet>>
ctlVars  == <<pc, ctx, todo, err, op, prevOp>>
histVars == <<launches, launched, probed, cleanup, teardown, stopTarget>>
instVars == <<mode, inst, baseUrl, playwright, sent, closedOnce>>
allocVars == <<aStart, aUsed, aResult>>
waitVars == <<wTimeout, wInterval, wConfigured, wPlan, wNever, wState, wNow,
              wProbes, wProbeTime, wResp, wWarned>>
retryVars == <<rTimes, rBreak, rMethod, rHeaders, rPassword, rState, rAttempt,
               rCalls, rRetries, rSleeps, rSent, rOutcomes, rLast, rResult,
               rStatuses>>
cfgVars == <<osType, providerType>>
mapVars == <<usedAt, ipAddr>>
fileVars == <<fLocal, fPos, fRemote, fLocal2, fState, fTries>>
cmdVars == <<xState, xResult>>
verifyVars == <<vTimeout, vInterval, vElapsed, vIter, vState>>
subVars == <<allocVars, waitVars, retryVars, fileVars, cmdVars, verifyVars>>
vars == <<hostVars, provVars, ctlVars, histVars, instVars, cfgVars, mapVars, subVars>>

Range(f) == {f[x] : x \in DOMAIN f}

----------------------------------------------------------------------------
(* Port allocator *)

RunningContainers == {c \in containers : c.state = "running"}

\* provider.py:85-101
DockerPorts == UNION {c.hostPorts : c \in RunningContainers}
GetUsedPorts == systemPorts \cup DockerPorts

NoPort == [ok |-> FALSE, port |-> 0]

RECURSIVE ScanFrom(_, _)
ScanFrom(port, used) ==
    IF port < ScanLimit
    THEN IF port \notin used
         THEN [ok |-> TRUE, port |-> port]
         ELSE ScanFrom(port + 1, used)
    ELSE NoPort

\* provider.py:103-113; ok = FALSE is PortAllocationError
GetAvailablePort(start_port, used) == ScanFrom(start_port, used)

----------------------------------------------------------------------------
(* Docker: stop and remove of a container *)

Exists(id) == \E c \in containers : c.id = id
IsRunning(id) == \E c \in RunningContainers : c.id = id

Stopped(id) ==
    {IF c.id = id THEN [c EXCEPT !.state = "exited"] ELSE c : c \in containers}
Removed(id) == {c \in containers : c.id # id}

\* provider.py:236-237 and 266-267: container.stop(); container.remove().
\* stop() on a container that is gone raises; either call may raise, and then
\* the rest of the try block is skipped.
Teardown(id) ==
    IF ~Exists(id)
    THEN {[world |-> containers, error |-> TRUE]}
    ELSE {[world |-> containers, error |-> TRUE],
          [world |-> Stopped(id), error |-> TRUE],
          [world |-> Removed(id), error |-> FALSE]}

\* provider.py:263: `if self.container:`; nothing is called without a handle
StopOutcomes(p) ==
    IF container[p] = NoContainer
    THEN {[world |-> containers, td |-> "none"]}
    ELSE {[world |-> r.world, td |-> IF r.error THEN "failed" ELSE "ok"] :
             r \in Teardown(container[p])}

StopErrorPropagated(td) == IF td = "failed" THEN "DockerError" ELSE "none"

\* provider.py:269-270: the error of stop/remove is logged, not raised
StopErrorRaised(td) == "none"

\* provider.py:262-272 applied with outcome o
StopEmulatorBody(p, o) ==
    /\ containers' = o.world
    /\ container' = [container EXCEPT ![p] = NoContainer]
    /\ teardown' = [teardown EXCEPT ![p] = o.td]
    /\ stopTarget' = [stopTarget EXCEPT ![p] = container[p]]

Call(p, name) ==
    /\ op' = [op EXCEPT ![p] = name]
    /\ prevOp' = [prevOp EXCEPT ![p] = op[p]]

----------------------------------------------------------------------------
(* Initial states *)

SysCandidates == {EndpointPort, EndpointPort + 1, ScanLimit - 1}

EnvHealthcheckAbsent == FALSE

\* remote_screen_env.py:212-216: the instance always configures /health
EnvHealthcheck == TRUE

\* provider.py:71-77 post_init: the identity port map
PostInitPorts == [q \in PortsToForward |-> q]

InitCommon ==
    /\ containers = {}
    /\ lock = {}
    /\ container = [p \in Procs |-> NoContainer]
    /\ ports = [p \in Procs |-> PostInitPorts]
    /\ pc = [p \in Procs |-> "idle"]
    /\ ctx = [p \in Procs |-> "none"]
    /\ todo = [p \in Procs |-> {}]
    /\ err = [p \in Procs |-> "none"]
    /\ op = [p \in Procs |-> "new"]
    /\ prevOp = [p \in Procs |-> "new"]
    /\ launches = [p \in Procs |-> 0]
    /\ launched = [p \in Procs |-> NoContainer]
    /\ probed = [p \in Procs |-> NoContainer]
    /\ cleanup = [p \in Procs |-> "none"]
    /\ teardown = [p \in Procs |-> "none"]
    /\ stopTarget = [p \in Procs |-> NoContainer]
    /\ inst = [p \in Procs |-> "new"]
    /\ baseUrl = [p \in Procs |-> 0]
    /\ playwright = [p \in Procs |-> "None"]
    /\ sent = [p \in Procs |-> [port |-> 0, closed |-> FALSE]]
    /\ closedOnce = [p \in Procs |-> FALSE]
    /\ usedAt = [p \in Procs |-> [q \in PortsToForward |-> {}]]
    /\ ipAddr = [p \in Procs |-> {}]

AllocIdle ==
    /\ aStart = ScanLimit
    /\ aUsed = {}
    /\ aResult = {}

\* No call of _wait_for_vm_ready is being followed.
WaitIdle ==
    /\ wTimeout = 0
    /\ wInterval = 0
    /\ wConfigured = TRUE
    /\ wPlan = 0
    /\ wNever = FALSE
    /\ wState = "idle"
    /\ wNow = 0
    /\ wProbes = 0
    /\ wProbeTime = 0
    /\ wResp = {}
    /\ wWarned = FALSE

\* No call of the retry wrapper is being followed.
RetryIdle ==
    /\ rTimes = 0
    /\ rBreak = TRUE
    /\ rMethod = "GET"
    /\ rHeaders = {}
    /\ rPassword = ""
    /\ rState = "idle"
    /\ rAttempt = 0
    /\ rCalls = 0
    /\ rRetries = 0
    /\ rSleeps = 0
    /\ rSent = {}
    /\ rOutcomes = {}
    /\ rLast = {}
    /\ rResult = [raised |-> FALSE, error |-> {}, value |-> {}]
    /\ rStatuses = {}

\* No file transfer is being followed.
FileIdle ==
    /\ fLocal = <<>>
    /\ fPos = 0
    /\ fRemote = {}
    /\ fLocal2 = {}
    /\ fState = "idle"
    /\ fTries = 0

NoCommandResult == [status |-> "none", error |-> "none", returncode |-> {}]

\* No call of execute_command is being followed.
CmdIdle ==
    /\ xState = "idle"
    /\ xResult = NoCommandResult

\* No call of _wait_and_verify is being followed.
VerifyIdle ==
    /\ vTimeout = 0
    /\ vInterval = 0
    /\ vElapsed = 0
    /\ vIter = 0
    /\ vState = "idle"

\* remote_screen_env.py:126-127: the values os_type and provider_type take
OsTypes == {"Ubuntu", "Windows", "MacOS"}
ProviderTypes == {"docker", "aws", "hf"}

\* remote_screen_env.py:126-127: the default arguments
DefaultConfig ==
    /\ osType = "Ubuntu"
    /\ providerType = "docker"

\* A provider that no process drives.
ProviderIdle ==
    /\ InitCommon
    /\ AllocIdle
    /\ DefaultConfig
    /\ systemPorts = {}
    /\ mode = [p \in Procs |-> "direct"]
    /\ hcSet = [p \in Procs |-> TRUE]

\* The client process of the single-client specification.
Client == CHOOSE p \in Procs : \A q \in Procs : p <= q

\* One client process: a bare DockerProvider, or a RemoteScreenEnv / Sandbox
\* whose constructor has built its provider.
Init ==
    /\ InitCommon
    /\ AllocIdle
    /\ WaitIdle
    /\ RetryIdle
    /\ FileIdle
    /\ CmdIdle
    /\ VerifyIdle
    /\ systemPorts \in SUBSET SysCandidates
    /\ \E m \in {"direct", "env"}, h \in BOOLEAN :
          /\ mode = [p \in Procs |-> IF p = Client THEN m ELSE "direct"]
          /\ hcSet = [p \in Procs |->
                        IF p = Client THEN (IF m = "env" THEN EnvHealthcheck ELSE h)
                        ELSE TRUE]
          /\ (m = "env" => h)
          /\ osType \in (IF m = "env" THEN OsTypes ELSE {"Ubuntu"})
          /\ providerType \in (IF m = "env" THEN ProviderTypes ELSE {"docker"})

\* NumProcs bare providers that provision on one host.
InitConc ==
    /\ InitCommon
    /\ AllocIdle
    /\ WaitIdle
    /\ RetryIdle
    /\ FileIdle
    /\ CmdIdle
    /\ VerifyIdle
    /\ DefaultConfig
    /\ systemPorts \in SUBSET SysCandidates
    /\ mode = [p \in Procs |-> "direct"]
    /\ hcSet = [p \in Procs |-> TRUE]

----------------------------------------------------------------------------
(* DockerProvider.start_emulator, provider.py:164-240, step by step *)

\* Entry of start_emulator from caller c ("direct", "reset", "init",
\* "envreset").
EnterStart(p, c) ==
    /\ launches[p] < MaxLaunch
    /\ pc' = [pc EXCEPT ![p] = "lock"]
    /\ ctx' = [ctx EXCEPT ![p] = c]
    /\ err' = [err EXCEPT ![p] = "none"]
    /\ launched' = [launched EXCEPT ![p] = NoContainer]
    /\ probed' = [probed EXCEPT ![p] = NoContainer]
    /\ cleanup' = [cleanup EXCEPT ![p] = "none"]

\* An exception inside the try block: control moves to the except clause.
Throw(p, e) ==
    /\ pc' = [pc EXCEPT ![p] = "except"]
    /\ err' = [err EXCEPT ![p] = e]

\* The error leaves start_emulator: to the handler of
\* RemoteScreenEnv.__init__ or to the caller.
AfterRaise(p) == IF ctx[p] = "init" THEN "handler" ELSE "idle"

LockAvailableAlways == TRUE

\* provider.py:166-169: FileLock is free for this process to take
LockAvailable == lock = {}

\* provider.py:169 `with lock:` entered
AcquireLock(p) ==
    /\ pc[p] = "lock"
    /\ LockAvailable
    /\ lock' = {p}
    /\ pc' = [pc EXCEPT ![p] = "image"]
    /\ UNCHANGED <<containers, systemPorts, provVars, ctx, todo, err, op,
                   prevOp, histVars, instVars, cfgVars, mapVars, subVars>>

LockTimeoutRetried(p) ==
    /\ pc[p] = "lock"
    /\ lock # {}
    /\ err' = [err EXCEPT ![p] = "LockTimeout"]
    /\ UNCHANGED <<hostVars, provVars, pc, ctx, todo, op, prevOp, histVars,
                   instVars, cfgVars, mapVars, subVars>>

\* provider.py:166 timeout=LOCK_TIMEOUT: another process kept the lock
LockTimeout(p) ==
    /\ pc[p] = "lock"
    /\ lock # {}
    /\ Throw(p, "LockTimeout")
    /\ UNCHANGED <<hostVars, provVars, ctx, todo, op, prevOp, histVars,
                   instVars, cfgVars, mapVars, subVars>>

HolderAfterFailureKept(p) == lock

\* provider.py:169: leaving the `with lock:` block through an exception
\* releases the lock
HolderAfterFailure(p) == lock \ {p}

\* provider.py:171-177: images.get, and images.pull when it is absent
ImageStep(p) ==
    /\ pc[p] = "image"
    /\ \/ /\ pc' = [pc EXCEPT ![p] = "alloc"]
          /\ todo' = [todo EXCEPT ![p] = DOMAIN ports[p]]
          /\ UNCHANGED <<lock, err>>
       \/ /\ Throw(p, "ImageError")
          /\ lock' = HolderAfterFailure(p)
          /\ UNCHANGED todo
    /\ UNCHANGED <<containers, systemPorts, provVars, ctx, op, prevOp,
                   histVars, instVars, cfgVars, mapVars, subVars>>

HolderAtLaunchReleased(p) == {}

\* provider.py:169-225: the holder of the lock once the ports are allocated
\* (the container is launched inside the `with lock:` block)
HolderAtLaunch(p) == {p}

\* provider.py:180-181: one iteration of the allocation loop
AllocStep(p) ==
    /\ pc[p] = "alloc"
    /\ \E port \in todo[p] :
          LET r == GetAvailablePort(port, GetUsedPorts) IN
          IF r.ok
          THEN /\ ports' = [ports EXCEPT ![p][port] = r.port]
               /\ usedAt' = [usedAt EXCEPT ![p][port] = GetUsedPorts]
               /\ todo' = [todo EXCEPT ![p] = @ \ {port}]
               /\ IF todo[p] = {port}
                  THEN /\ pc' = [pc EXCEPT ![p] = "run"]
                       /\ lock' = HolderAtLaunch(p)
                  ELSE UNCHANGED <<pc, lock>>
               /\ UNCHANGED err
          ELSE /\ Throw(p, "PortAllocationError")
               /\ lock' = HolderAfterFailure(p)
               /\ UNCHANGED <<ports, todo, usedAt>>
    /\ UNCHANGED <<containers, systemPorts, container, hcSet, ctx, op, prevOp,
                   histVars, instVars, cfgVars, ipAddr, subVars>>

\* Docker binds the requested host ports: each once, none already bound
Bindable(p) ==
    /\ \A a, b \in DOMAIN ports[p] : a # b => ports[p][a] # ports[p][b]
    /\ Range(ports[p]) \cap GetUsedPorts = {}

HolderAfterLaunchKept(p) == {p}

\* provider.py:225-230: the `with lock:` block ends with containers.run; the
\* holder of the lock when _wait_for_vm_ready is called
HolderAfterLaunch(p) == {}

\* provider.py:214-225: client.containers.run(..., detach=True), the last
\* statement of the `with lock:` block
RunContainer(p) ==
    /\ pc[p] = "run"
    /\ \/ /\ Bindable(p)
          /\ LET id == <<p, launches[p] + 1>> IN
             /\ containers' = containers \cup
                   {[id |-> id, state |-> "running",
                     hostPorts |-> Range(ports[p])]}
             /\ container' = [container EXCEPT ![p] = id]
             /\ launched' = [launched EXCEPT ![p] = id]
          /\ launches' = [launches EXCEPT ![p] = @ + 1]
          /\ pc' = [pc EXCEPT ![p] = "poll"]
          /\ lock' = HolderAfterLaunch(p)
          /\ UNCHANGED err
       \/ /\ Throw(p, "RunError")
          /\ lock' = HolderAfterFailure(p)
          /\ UNCHANGED <<containers, container, launched, launches>>
    /\ UNCHANGED <<systemPorts, ports, hcSet, ctx, todo, op, prevOp, probed,
                   cleanup, teardown, stopTarget, instVars, cfgVars, mapVars, subVars>>

\* start_emulator returns: RemoteScreenEnv.__init__ goes on to derive the URLs
\* (remote_screen_env.py:244-245) and returns the instance
ReturnFromStart(p) ==
    /\ pc' = [pc EXCEPT ![p] = "idle"]
    /\ IF ctx[p] = "init"
       THEN /\ inst' = [inst EXCEPT ![p] = "handed"]
            /\ baseUrl' = [baseUrl EXCEPT ![p] = ports[p][EndpointPort]]
       ELSE UNCHANGED <<inst, baseUrl>>

\* provider.py:120-151 check_health: True without a probe when the
\* healthcheck is not configured, else the probe of the endpoint's host port
\* answered 200
PollReady(p) ==
    /\ pc[p] = "poll"
    /\ IF ~hcSet[p]
       THEN UNCHANGED probed
       ELSE \E c \in RunningContainers :
               /\ ports[p][EndpointPort] \in c.hostPorts
               /\ probed' = [probed EXCEPT ![p] = c.id]
    /\ ReturnFromStart(p)
    /\ UNCHANGED <<hostVars, provVars, ctx, todo, err, op, prevOp, launches,
                   launched, cleanup, teardown, stopTarget, mode, playwright,
                   sent, closedOnce, cfgVars, mapVars, subVars>>

\* provider.py:153-162: the loop ends without a successful probe
PollTimeout(p) ==
    /\ pc[p] = "poll"
    /\ Throw(p, "TimeoutError")
    /\ UNCHANGED <<hostVars, provVars, ctx, todo, op, prevOp, histVars,
                   instVars, cfgVars, mapVars, subVars>>

\* KeyboardInterrupt while the poller blocks: `except Exception` at
\* provider.py:232 does not catch it, so no cleanup runs in start_emulator
Interrupt(p) ==
    /\ pc[p] = "poll"
    /\ pc' = [pc EXCEPT ![p] = AfterRaise(p)]
    /\ err' = [err EXCEPT ![p] = "KeyboardInterrupt"]
    /\ UNCHANGED <<hostVars, provVars, ctx, todo, op, prevOp, histVars,
                   instVars, cfgVars, mapVars, subVars>>

CleanupHandleSkipped(p) == NoContainer

\* provider.py:234 `if self.container:` the handle the cleanup acts on
CleanupHandle(p) == container[p]

\* provider.py:232-240: stop and remove, errors swallowed, then `raise e`
Except(p) ==
    /\ pc[p] = "except"
    /\ IF CleanupHandle(p) = NoContainer
       THEN UNCHANGED <<containers, cleanup>>
       ELSE \E r \in Teardown(CleanupHandle(p)) :
               /\ containers' = r.world
               /\ cleanup' = [cleanup EXCEPT ![p] =
                                IF r.error THEN "failed" ELSE "ok"]
    /\ pc' = [pc EXCEPT ![p] = AfterRaise(p)]
    /\ UNCHANGED <<lock, systemPorts, provVars, ctx, todo, err, op, prevOp,
                   launches, launched, probed, teardown, stopTarget, instVars,
                   cfgVars, mapVars, subVars>>

StartSteps(p) ==
    \/ AcquireLock(p)
    \/ ImageStep(p)
    \/ AllocStep(p)
    \/ RunContainer(p)
    \/ PollReady(p)
    \/ PollTimeout(p)
    \/ Interrupt(p)
    \/ Except(p)

----------------------------------------------------------------------------
(* DockerProvider used directly *)

IsDirect(p) == mode[p] = "direct" /\ pc[p] = "idle"

\* provider.py:164: a call of start_emulator
StartEmulator(p) ==
    /\ IsDirect(p)
    /\ Call(p, "start")
    /\ EnterStart(p, "direct")
    /\ UNCHANGED <<hostVars, provVars, todo, launches, teardown, stopTarget,
                   instVars, cfgVars, mapVars, subVars>>

\* provider.py:262-272: a call of stop_emulator
StopEmulator(p) ==
    /\ IsDirect(p)
    /\ Call(p, "stop")
    /\ \E o \in StopOutcomes(p) :
          /\ StopEmulatorBody(p, o)
          /\ err' = [err EXCEPT ![p] = StopErrorRaised(o.td)]
    /\ UNCHANGED <<lock, systemPorts, ports, hcSet, pc, ctx, todo, launches,
                   launched, probed, cleanup, instVars, cfgVars, mapVars, subVars>>

ResetNoStop(p) ==
    /\ IsDirect(p)
    /\ Call(p, "reset")
    /\ EnterStart(p, "reset")
    /\ UNCHANGED <<hostVars, provVars, todo, launches, teardown, stopTarget,
                   instVars, cfgVars, mapVars, subVars>>

\* provider.py:256-260: stop_emulator, then start_emulator
Reset(p) ==
    /\ IsDirect(p)
    /\ Call(p, "reset")
    /\ \E o \in StopOutcomes(p) : StopEmulatorBody(p, o)
    /\ EnterStart(p, "reset")
    /\ UNCHANGED <<lock, systemPorts, ports, hcSet, todo, launches, instVars,
                   cfgVars, mapVars, subVars>>

\* provider.py:243 `all([self.ports])`: the port map is not empty
PortsAllocated(p) == DOMAIN ports[p] # {}

HostPortMapIdentity(p) == PostInitPorts

\* provider.py:247 host_port={port: self.ports[port] for port in self.ports}
HostPortMap(p) == [port \in DOMAIN ports[p] |-> ports[p][port]]

\* provider.py:242-248: a call of get_ip_address
GetIpAddress(p) ==
    /\ IsDirect(p)
    /\ Call(p, "get_ip")
    /\ err' = [err EXCEPT ![p] =
                 IF PortsAllocated(p) THEN "none" ELSE "RuntimeError"]
    /\ ipAddr' = [ipAddr EXCEPT ![p] =
                    IF PortsAllocated(p) THEN {HostPortMap(p)} ELSE {}]
    /\ UNCHANGED <<hostVars, provVars, pc, ctx, todo, histVars, instVars,
                   cfgVars, usedAt, subVars>>

SnapshotSilent == "none"

\* provider.py:250-254 raise NotImplementedError("Snapshots not available
\* for Docker provider")
SnapshotError == "NotImplementedError"

\* provider.py:250-251: a call of save_state
SaveState(p) ==
    /\ IsDirect(p)
    /\ Call(p, "save_state")
    /\ err' = [err EXCEPT ![p] = SnapshotError]
    /\ UNCHANGED <<hostVars, provVars, pc, ctx, todo, histVars, instVars,
                   cfgVars, mapVars, subVars>>

\* provider.py:253-254: a call of revert_to_snapshot
RevertToSnapshot(p) ==
    /\ IsDirect(p)
    /\ Call(p, "revert_to_snapshot")
    /\ err' = [err EXCEPT ![p] = SnapshotError]
    /\ UNCHANGED <<hostVars, provVars, pc, ctx, todo, histVars, instVars,
                   cfgVars, mapVars, subVars>>

----------------------------------------------------------------------------
(* RemoteScreenEnv / Sandbox *)

SupportedAny(os, provider) == TRUE

\* remote_screen_env.py:206-207: `if os_type == "Ubuntu"`, `if provider_type
\* == "docker"`
Supported(os, provider) == os = "Ubuntu" /\ provider = "docker"

\* remote_screen_env.py:227-232: NotImplementedError, raised before the
\* provider is created
EnvInitUnsupported(p) ==
    /\ mode[p] = "env" /\ inst[p] = "new" /\ pc[p] = "idle" /\ op[p] = "new"
    /\ ~Supported(osType, providerType)
    /\ Call(p, "init")
    /\ inst' = [inst EXCEPT ![p] = "failed"]
    /\ err' = [err EXCEPT ![p] = "NotImplementedError"]
    /\ UNCHANGED <<hostVars, provVars, pc, ctx, todo, histVars, mode, baseUrl,
                   playwright, sent, closedOnce, cfgVars, mapVars, subVars>>

\* remote_screen_env.py:235-237: the constructor calls start_emulator
EnvInit(p) ==
    /\ mode[p] = "env" /\ inst[p] = "new" /\ pc[p] = "idle" /\ op[p] = "new"
    /\ Supported(osType, providerType)
    /\ Call(p, "init")
    /\ EnterStart(p, "init")
    /\ UNCHANGED <<hostVars, provVars, todo, launches, teardown, stopTarget,
                   instVars, cfgVars, mapVars, subVars>>

EnvInitHandlerNoStop(p) ==
    /\ pc[p] = "handler"
    /\ inst' = [inst EXCEPT ![p] = "failed"]
    /\ pc' = [pc EXCEPT ![p] = "idle"]
    /\ UNCHANGED <<hostVars, provVars, ctx, todo, err, op, prevOp, histVars,
                   mode, baseUrl, playwright, sent, closedOnce, cfgVars, mapVars, subVars>>

\* remote_screen_env.py:238-241: stop_emulator, then `raise e`; the
\* constructor returns no instance
EnvInitHandler(p) ==
    /\ pc[p] = "handler"
    /\ \E o \in StopOutcomes(p) : StopEmulatorBody(p, o)
    /\ inst' = [inst EXCEPT ![p] = "failed"]
    /\ pc' = [pc EXCEPT ![p] = "idle"]
    /\ UNCHANGED <<lock, systemPorts, ports, hcSet, ctx, todo, err, op, prevOp,
                   launches, launched, probed, cleanup, mode, baseUrl,
                   playwright, sent, closedOnce, cfgVars, mapVars, subVars>>

\* The caller holds an instance and no call on it is running.
HasInstance(p) == mode[p] = "env" /\ inst[p] = "handed" /\ pc[p] = "idle"

\* The server behind host port hp: a running container publishes it
Answers(hp) == \E c \in RunningContainers : hp \in c.hostPorts

\* sandbox.py:115-153 _make_request under retry: requests.request to
\* server_url, which is built on base_url
MakeRequest(p) ==
    /\ sent' = [sent EXCEPT ![p] = [port |-> baseUrl[p],
                                    closed |-> closedOnce[p]]]

\* A capability call (left_click, write, screenshot, ...): one _make_request
Request(p) ==
    /\ HasInstance(p)
    /\ Call(p, "request")
    /\ MakeRequest(p)
    /\ err' = [err EXCEPT ![p] =
                 IF Answers(baseUrl[p]) THEN "none" ELSE "RequestError"]
    /\ UNCHANGED <<hostVars, provVars, pc, ctx, todo, histVars, mode, inst,
                   baseUrl, playwright, closedOnce, cfgVars, mapVars, subVars>>

\* sandbox.py:429-443 open(url) with sandbox.py:156-216
\* _chrome_open_tabs_setup: the session is started when there is none; when
\* no attempt connects it is stopped and the handle is kept
OpenUrl(p) ==
    /\ HasInstance(p)
    /\ Call(p, "open_url")
    /\ MakeRequest(p)
    /\ IF ~Answers(baseUrl[p])
       THEN /\ err' = [err EXCEPT ![p] = "RequestError"]
            /\ UNCHANGED playwright
       ELSE \/ /\ playwright[p] # "stopped"
               /\ playwright' = [playwright EXCEPT ![p] = "started"]
               /\ err' = [err EXCEPT ![p] = "none"]
            \/ /\ playwright' = [playwright EXCEPT ![p] = "stopped"]
               /\ err' = [err EXCEPT ![p] = "ConnectError"]
    /\ UNCHANGED <<hostVars, provVars, pc, ctx, todo, histVars, mode, inst,
                   baseUrl, closedOnce, cfgVars, mapVars, subVars>>

\* sandbox.py:647-653 and remote_screen_env.py:303-306:
\* self._playwright.stop() when the handle is set, then
\* provider.stop_emulator(); an error of stop() leaves close() at once
CloseBody(p) ==
    \/ /\ playwright[p] # "None"
       /\ err' = [err EXCEPT ![p] = "PlaywrightError"]
       /\ UNCHANGED <<containers, container, teardown, stopTarget, playwright,
                      closedOnce>>
    \/ /\ playwright' = [playwright EXCEPT ![p] =
                           IF @ = "None" THEN "None" ELSE "stopped"]
       /\ \E o \in StopOutcomes(p) :
             /\ StopEmulatorBody(p, o)
             /\ err' = [err EXCEPT ![p] = StopErrorRaised(o.td)]
       /\ closedOnce' = [closedOnce EXCEPT ![p] = TRUE]

Close(p) ==
    /\ HasInstance(p)
    /\ Call(p, "close")
    /\ CloseBody(p)
    /\ UNCHANGED <<lock, systemPorts, ports, hcSet, pc, ctx, todo, launches,
                   launched, probed, cleanup, mode, inst, baseUrl, sent,
                   cfgVars, mapVars, subVars>>

\* remote_screen_env.py:308-310: kill() calls self.close()
Kill(p) ==
    /\ HasInstance(p)
    /\ Call(p, "kill")
    /\ CloseBody(p)
    /\ UNCHANGED <<lock, systemPorts, ports, hcSet, pc, ctx, todo, launches,
                   launched, probed, cleanup, mode, inst, baseUrl, sent,
                   cfgVars, mapVars, subVars>>

\* remote_screen_env.py:299-301: reset() is provider.reset()
EnvReset(p) ==
    /\ HasInstance(p)
    /\ Call(p, "env_reset")
    /\ \E o \in StopOutcomes(p) : StopEmulatorBody(p, o)
    /\ EnterStart(p, "envreset")
    /\ UNCHANGED <<lock, systemPorts, ports, hcSet, todo, launches, instVars,
                   cfgVars, mapVars, subVars>>

----------------------------------------------------------------------------
(* Specifications *)

Next ==
    \/ StartSteps(Client)
    \/ StartEmulator(Client)
    \/ StopEmulator(Client)
    \/ Reset(Client)
    \/ GetIpAddress(Client)
    \/ SaveState(Client)
    \/ RevertToSnapshot(Client)
    \/ EnvInitUnsupported(Client)
    \/ EnvInit(Client)
    \/ EnvInitHandler(Client)
    \/ Request(Client)
    \/ OpenUrl(Client)
    \/ Close(Client)
    \/ Kill(Client)
    \/ EnvReset(Client)

Spec == Init /\ [][Next]_vars

\* Concurrent provisioning: every process starts its provider once and may
\* stop it while it holds a container.
FirstStart(p) == op[p] = "new" /\ StartEmulator(p)
StopHeld(p) == container[p] # NoContainer /\ StopEmulator(p)

NextConc ==
    \E p \in Procs :
        \/ FirstStart(p)
        \/ LockTimeout(p)
        \/ StartSteps(p)
        \/ StopHeld(p)

SpecConc == InitConc /\ [][NextConc]_vars

\* _get_available_port applied to one start port and one set of used ports.
StartPorts == (ScanLimit - ScanWindow)..(ScanLimit + 1)
LargestPort == 2^16 - 1
UsedChoices == (SUBSET StartPorts) \cup {s..LargestPort : s \in StartPorts}

InitAlloc ==
    /\ InitCommon
    /\ WaitIdle
    /\ RetryIdle
    /\ FileIdle
    /\ CmdIdle
    /\ VerifyIdle
    /\ DefaultConfig
    /\ systemPorts = {}
    /\ mode = [p \in Procs |-> "direct"]
    /\ hcSet = [p \in Procs |-> TRUE]
    /\ aStart \in StartPorts
    /\ aUsed \in UsedChoices
    /\ aResult = {}

AllocCall ==
    /\ aResult = {}
    /\ aResult' = {GetAvailablePort(aStart, aUsed)}
    /\ UNCHANGED <<hostVars, provVars, ctlVars, histVars, instVars, cfgVars,
                   mapVars, fileVars, cmdVars, verifyVars, aStart, aUsed, waitVars, retryVars>>

SpecAlloc == InitAlloc /\ [][AllocCall]_vars

----------------------------------------------------------------------------
(* DockerProvider._wait_for_vm_ready, provider.py:115-162 *)

\* What requests.request gives the probe: a response with a status code, or
\* an exception (connection refused, reset, timed out).
ProbeStatuses == {200, 204, 404, 503}
ProbeAnswers ==
    {[raised |-> FALSE, status |-> s] : s \in ProbeStatuses}
       \cup {[raised |-> TRUE, status |-> 0]}

\* provider.py:133-151: `return response.status_code == 200`, False on any
\* exception
CheckHealth(r) == ~r.raised /\ r.status = 200

\* The answers the probe can get at its n-th call: check_health returns False
\* on each of the first wPlan calls (on every call when wNever), True after.
AnswersAt(n) ==
    {r \in ProbeAnswers : CheckHealth(r) <=> (~wNever /\ n > wPlan)}

LoopContinuesEarlyExit(elapsed, timeout) == elapsed + 1 < timeout

\* provider.py:153 `while time.time() - start_time < timeout`
LoopContinues(elapsed, timeout) == elapsed < timeout

SleepTwice(interval) == interval + interval

\* provider.py:160 time.sleep(retry_interval)
SleepTime(interval) == interval

Timeouts == 0..MaxTimeout
Intervals == 1..MaxInterval

\* The call starts: start_time = time.time(), provider.py:117-118
InitWait ==
    /\ ProviderIdle
    /\ RetryIdle
    /\ FileIdle
    /\ CmdIdle
    /\ VerifyIdle
    /\ wTimeout \in Timeouts
    /\ wInterval \in Intervals
    /\ wConfigured \in BOOLEAN
    /\ wNever \in BOOLEAN
    /\ wPlan \in 0..MaxFail
    /\ (wNever \/ ~wConfigured) => wPlan = 0
    /\ ~wConfigured => ~wNever
    /\ wState = "test"
    /\ wNow = 0
    /\ wProbes = 0
    /\ wProbeTime = 0
    /\ wResp = {}
    /\ wWarned = FALSE

\* provider.py:153 and 162: the loop condition; TimeoutError when it is false
WaitTest ==
    /\ wState = "test"
    /\ wState' = IF LoopContinues(wNow, wTimeout) THEN "probe" ELSE "timeout"
    /\ UNCHANGED <<hostVars, provVars, ctlVars, histVars, instVars, cfgVars, mapVars,
                   fileVars, cmdVars, verifyVars, allocVars,
                   retryVars, wTimeout, wInterval, wConfigured, wPlan, wNever,
                   wNow, wProbes, wProbeTime, wResp, wWarned>>

\* provider.py:121-132 and 154-155: the healthcheck is not configured;
\* check_health logs the warning and returns True without a probe
WaitSkipProbe ==
    /\ wState = "probe"
    /\ ~wConfigured
    /\ wWarned' = TRUE
    /\ wState' = "ready"
    /\ UNCHANGED <<hostVars, provVars, ctlVars, histVars, instVars, cfgVars, mapVars,
                   fileVars, cmdVars, verifyVars, allocVars,
                   retryVars, wTimeout, wInterval, wConfigured, wPlan, wNever,
                   wNow, wProbes, wProbeTime, wResp>>

\* provider.py:133-151 and 154-155: one probe, which takes d; the call
\* returns True when check_health does
WaitProbe ==
    /\ wState = "probe"
    /\ wConfigured
    /\ \E r \in AnswersAt(wProbes + 1), d \in 0..MaxProbeTime :
          /\ wProbes' = wProbes + 1
          /\ wNow' = wNow + d
          /\ wResp' = wResp \cup {[resp |-> r, verdict |-> CheckHealth(r)]}
          /\ IF CheckHealth(r)
             THEN /\ wState' = "ready"
                  /\ UNCHANGED wProbeTime
             ELSE /\ wState' = "sleep"
                  /\ wProbeTime' = wProbeTime + d
    /\ UNCHANGED <<hostVars, provVars, ctlVars, histVars, instVars, cfgVars, mapVars,
                   fileVars, cmdVars, verifyVars, allocVars,
                   retryVars, wTimeout, wInterval, wConfigured, wPlan, wNever,
                   wWarned>>

\* provider.py:156-160: the progress line, then time.sleep(retry_interval)
WaitSleep ==
    /\ wState = "sleep"
    /\ wNow' = wNow + SleepTime(wInterval)
    /\ wState' = "test"
    /\ UNCHANGED <<hostVars, provVars, ctlVars, histVars, instVars, cfgVars, mapVars,
                   fileVars, cmdVars, verifyVars, allocVars,
                   retryVars, wTimeout, wInterval, wConfigured, wPlan, wNever,
                   wProbes, wProbeTime, wResp, wWarned>>

NextWait ==
    \/ WaitTest
    \/ WaitSkipProbe
    \/ WaitProbe
    \/ WaitSleep

\* The call is sequential code: it takes its next step as long as it has one.
SpecWait == InitWait /\ [][NextWait]_vars /\ WF_vars(NextWait)

----------------------------------------------------------------------------
(* retry_decorator.py:12-55 around Sandbox._make_request, sandbox.py:115-153 *)

\* What requests.request does at sandbox.py:130: it returns a response, or
\* raises (a connection error, or an error of class TimeoutError).
HttpStatuses == {200, 204, 304, 404, 500}
HttpBodies == {"", "detail"}
CallAnswers ==
    {[raises |-> "no", status |-> st, body |-> b] :
        st \in HttpStatuses, b \in HttpBodies}
       \cup {[raises |-> e, status |-> 0, body |-> ""] :
                e \in {"ConnectionError", "TimeoutError"}}

FuncName == "_make_request"
\* sandbox.py:120 url = self.server_url + endpoint
RequestUrl == <<"server_url", "/endpoint">>

\* An exception object: its class, the invocation that raised it, and what it
\* carries.
Error(type, call, method, url, status, body, func, attempts) ==
    [type |-> type, call |-> call, method |-> method, url |-> url,
     status |-> status, body |-> body, func |-> func, attempts |-> attempts,
     cause |-> {}]

\* sandbox.py:138-140: response.content.decode() if response.content else None
ResponseContent(body) == IF body = "" THEN "None" ELSE body

\* sandbox.py:131 `if response.status_code >= 400`
StatusIsError(status) == status >= 400

\* sandbox.py:130-153: the outcome of the call numbered `call` on answer a
MakeRequestCall(a, method, call) ==
    IF a.raises # "no"
    THEN [raised |-> TRUE,
          error |-> Error(a.raises, call, "", <<>>, 0, "", "", 0)]
    ELSE IF StatusIsError(a.status)
    THEN [raised |-> TRUE,
          error |-> Error("Exception", call, method, RequestUrl, a.status,
                          ResponseContent(a.body), "", 0)]
    ELSE [raised |-> FALSE,
          error |-> Error("none", call, "", <<>>, 0, "", "", 0)]

HeaderNames == {"Accept", "X-Session-Password"}

\* The headers keyword of the caller: absent, or a dict of these header names
CallerHeaders ==
    {[given |-> FALSE, names |-> {}]}
       \cup {[given |-> TRUE, names |-> n] : n \in SUBSET HeaderNames}

HeadersAsPassed(h, password) ==
    [k \in (IF h.given THEN h.names ELSE {"X-Session-Password"}) |->
        IF h.given THEN "caller" ELSE password]

\* sandbox.py:124-128: kwargs["headers"] of the request
RequestHeaders(h, password) ==
    [k \in h.names \cup {"X-Session-Password"} |->
        IF k = "X-Session-Password" THEN password ELSE "caller"]

BreakNever(e, flag) == FALSE

\* retry_decorator.py:35 isinstance(e, TimeoutError) and break_on_timeout
BreakOnTimeout(e, flag) == e.type = "TimeoutError" /\ flag

MoreAttemptsOneShort(attempt, n) == attempt < n - 2

\* retry_decorator.py:39 `if attempt < retry_times - 1`
MoreAttempts(attempt, n) == attempt < n - 1

\* retry_decorator.py:49-51 raise Exception(f"Failed to execute
\* {func.__name__} after {retry_times} attempts")
FinalError(n) == Error("Exception", 0, "", <<>>, 0, "", FuncName, n)

NoResult == [raised |-> FALSE, error |-> {}, value |-> {}]

\* The wrapper is called: retry_decorator.py:29-30
InitRetry ==
    /\ ProviderIdle
    /\ WaitIdle
    /\ FileIdle
    /\ CmdIdle
    /\ VerifyIdle
    /\ rTimes \in 0..MaxRetryTimes
    /\ rBreak \in BOOLEAN
    /\ rMethod \in {"GET", "POST"}
    /\ rHeaders \in CallerHeaders
    /\ rPassword \in {"", "secret"}
    /\ rState = "loop"
    /\ rAttempt = 0
    /\ rCalls = 0
    /\ rRetries = 0
    /\ rSleeps = 0
    /\ rSent = {}
    /\ rOutcomes = {}
    /\ rLast = {}
    /\ rResult = NoResult
    /\ rStatuses = {}

\* retry_decorator.py:30-47: one iteration of the loop, one invocation of
\* _make_request, which issues one HTTP request
RetryIteration ==
    /\ rState = "loop"
    /\ rAttempt < rTimes
    /\ \E a \in CallAnswers :
          LET o == MakeRequestCall(a, rMethod, rCalls + 1) IN
          /\ rCalls' = rCalls + 1
          /\ rSent' = rSent \cup {RequestHeaders(rHeaders, rPassword)}
          /\ rStatuses' = rStatuses \cup {a.status}
          /\ rOutcomes' = {[answer |-> a, raised |-> o.raised,
                            error |-> o.error]}
          /\ IF ~o.raised
             THEN /\ rState' = "returned"
                  /\ rResult' = [raised |-> FALSE, error |-> {},
                                 value |-> {a}]
                  /\ UNCHANGED <<rAttempt, rRetries, rSleeps, rLast>>
             ELSE /\ rLast' = {o.error}
                  /\ IF BreakOnTimeout(o.error, rBreak)
                     THEN /\ rState' = "broke"
                          /\ UNCHANGED <<rAttempt, rRetries, rSleeps, rResult>>
                     ELSE IF MoreAttempts(rAttempt, rTimes)
                     THEN /\ rRetries' = rRetries + 1
                          /\ rSleeps' = rSleeps + 1
                          /\ rAttempt' = rAttempt + 1
                          /\ UNCHANGED <<rState, rResult>>
                     ELSE /\ rState' = "raised"
                          /\ rResult' = [raised |-> TRUE, error |-> {o.error},
                                         value |-> {}]
                          /\ UNCHANGED <<rAttempt, rRetries, rSleeps>>
    /\ UNCHANGED <<hostVars, provVars, ctlVars, histVars, instVars, cfgVars, mapVars,
                   fileVars, cmdVars, verifyVars, allocVars,
                   waitVars, rTimes, rBreak, rMethod, rHeaders, rPassword>>

\* retry_decorator.py:49-51: after the loop, left by `break` or run out
RetryAfterLoop ==
    /\ \/ rState = "broke"
       \/ rState = "loop" /\ rAttempt >= rTimes
    /\ rState' = "raised"
    /\ rResult' = [raised |-> TRUE, error |-> {FinalError(rTimes)},
                   value |-> {}]
    /\ UNCHANGED <<hostVars, provVars, ctlVars, histVars, instVars, cfgVars, mapVars,
                   fileVars, cmdVars, verifyVars, allocVars,
                   waitVars, rTimes, rBreak, rMethod, rHeaders, rPassword,
                   rAttempt, rCalls, rRetries, rSleeps, rSent, rOutcomes,
                   rLast, rStatuses>>

NextRetry ==
    \/ RetryIteration
    \/ RetryAfterLoop

SpecRetry == InitRetry /\ [][NextRetry]_vars

----------------------------------------------------------------------------
(* Sandbox.upload_file_to_remote and download_file_from_remote,
   sandbox.py:317-348, each one _make_request under the retry wrapper *)

Bytes == {0, 1}
FileContents == UNION {[1..n -> Bytes] : n \in 0..MaxFileLen}

\* sandbox.py:115 retry_times=10: the attempts of one _make_request, within
\* the window the model explores
RequestAttempts == MaxRetryTimes

\* sandbox.py:337-341: requests reads the open file object `f` from its
\* current position to the end when it encodes the multipart body
ReadToEnd(content, pos) == SubSeq(content, pos + 1, Len(content))

\* The control server of the container: POST /upload stores file_data at
\* file_path, GET /file answers with the bytes stored at file_path
ServerStore(data) == {data}
ServerFile(store) == store

RECURSIVE IterContent(_)
\* sandbox.py:325 response_stream.iter_content(chunk_size=8192)
IterContent(content) ==
    IF Len(content) = 0
    THEN <<>>
    ELSE IF Len(content) <= ChunkSize
    THEN <<content>>
    ELSE <<SubSeq(content, 1, ChunkSize)>>
            \o IterContent(SubSeq(content, ChunkSize + 1, Len(content)))

RECURSIVE WriteChunks(_)
\* sandbox.py:324-328: write every chunk, stop at the first empty one
WriteChunks(chunks) ==
    IF chunks = <<>> \/ Len(Head(chunks)) = 0
    THEN <<>>
    ELSE Head(chunks) \o WriteChunks(Tail(chunks))

\* upload_file_to_remote is called: open(local_path, "rb"), sandbox.py:335
InitFile ==
    /\ ProviderIdle
    /\ WaitIdle
    /\ RetryIdle
    /\ CmdIdle
    /\ VerifyIdle
    /\ fLocal \in FileContents
    /\ fPos = 0
    /\ fRemote \in {{}, {<<>>}}
    /\ fLocal2 = {}
    /\ fState = "upload"
    /\ fTries = 0

\* The retry wrapper after a failed attempt: retry_decorator.py:39-47
AfterFailedAttempt(next) ==
    IF MoreAttempts(fTries, RequestAttempts)
    THEN /\ fTries' = fTries + 1
         /\ fState' = fState
    ELSE /\ fTries' = fTries
         /\ fState' = next

\* sandbox.py:335-346: one attempt of POST /upload with files=
\* {"file_data": (name, f)}; the request may fail before or after the server
\* has stored the file
UploadAttempt ==
    /\ fState = "upload"
    /\ LET data == ReadToEnd(fLocal, fPos) IN
       /\ fPos' = Len(fLocal)
       /\ \/ /\ fRemote' = ServerStore(data)
             /\ fState' = "uploaded"
             /\ fTries' = 0
          \/ /\ fRemote' = ServerStore(data)
             /\ AfterFailedAttempt("failed")
          \/ /\ fRemote' = fRemote
             /\ AfterFailedAttempt("failed")
    /\ UNCHANGED <<hostVars, provVars, ctlVars, histVars, instVars, cfgVars,
                   mapVars, allocVars, waitVars, retryVars, cmdVars,
                   verifyVars, fLocal, fLocal2>>

\* sandbox.py:319-328: one attempt of GET /file; the answer is written to
\* local_dest chunk by chunk
DownloadAttempt ==
    /\ fState = "uploaded"
    /\ \/ /\ \E content \in ServerFile(fRemote) :
                fLocal2' = {WriteChunks(IterContent(content))}
          /\ fState' = "downloaded"
          /\ fTries' = 0
       \/ /\ AfterFailedAttempt("failed")
          /\ fLocal2' = fLocal2
    /\ UNCHANGED <<hostVars, provVars, ctlVars, histVars, instVars, cfgVars,
                   mapVars, allocVars, waitVars, retryVars, cmdVars,
                   verifyVars, fLocal, fPos,
                   fRemote>>

NextFile ==
    \/ UploadAttempt
    \/ DownloadAttempt

SpecFile == InitFile /\ [][NextFile]_vars

----------------------------------------------------------------------------
(* Sandbox.execute_command, sandbox.py:268-293: one _make_request under the
   retry wrapper inside try/except *)

\* sandbox.py:283 CommandResponse(**response.json()): the body parses into a
\* CommandResponse with one of these statuses, or json() / the validation
\* raises; an empty body never parses
CommandStatuses == {"SUCCESS", "ERROR"}
ResponseJson(body) ==
    {[raised |-> TRUE, status |-> "none"]}
       \cup (IF body = "" THEN {}
             ELSE {[raised |-> FALSE, status |-> st] : st \in CommandStatuses})

\* sandbox.py:284-293: the except clause builds a CommandResponse from
\* response.status_code; `response` is a local that is bound only when
\* _make_request returned, and reading it unbound raises UnboundLocalError
ErrorResponse(bound, e) ==
    IF bound = {}
    THEN [raised |-> TRUE,
          result |-> [status |-> "none", error |-> "UnboundLocalError",
                      returncode |-> {}]]
    ELSE [raised |-> FALSE,
          result |-> [status |-> "ERROR", error |-> e,
                      returncode |-> {a.status : a \in bound}]]

\* execute_command is called: sandbox.py:273-282 calls
\* self._make_request("POST", "/execute", params=..., timeout=timeout)
InitExec ==
    /\ ProviderIdle
    /\ WaitIdle
    /\ FileIdle
    /\ VerifyIdle
    /\ rTimes \in 1..MaxRetryTimes
    /\ rBreak = TRUE
    /\ rMethod = "POST"
    /\ rHeaders = [given |-> FALSE, names |-> {}]
    /\ rPassword \in {"", "secret"}
    /\ rState = "loop"
    /\ rAttempt = 0
    /\ rCalls = 0
    /\ rRetries = 0
    /\ rSleeps = 0
    /\ rSent = {}
    /\ rOutcomes = {}
    /\ rLast = {}
    /\ rResult = NoResult
    /\ rStatuses = {}
    /\ xState = "called"
    /\ xResult = NoCommandResult

\* sandbox.py:283-293: _make_request has returned or raised
ExecuteCommandEnd ==
    /\ xState = "called"
    /\ rState \in {"returned", "raised"}
    /\ \E o \in (IF rResult.raised
                 THEN {ErrorResponse({}, "request")}
                 ELSE UNION {{IF j.raised
                              THEN ErrorResponse({a}, "json")
                              ELSE [raised |-> FALSE,
                                    result |-> [status |-> j.status,
                                                error |-> "none",
                                                returncode |-> {}]] :
                                 j \in ResponseJson(a.body)} :
                                a \in rResult.value}) :
          /\ xState' = IF o.raised THEN "raised" ELSE "returned"
          /\ xResult' = o.result
    /\ UNCHANGED <<hostVars, provVars, ctlVars, histVars, instVars, cfgVars,
                   mapVars, allocVars, waitVars, retryVars, fileVars,
                   verifyVars>>

NextExec ==
    \/ RetryIteration
    \/ RetryAfterLoop
    \/ ExecuteCommandEnd

SpecExec == InitExec /\ [][NextExec]_vars

----------------------------------------------------------------------------
(* Sandbox._wait_and_verify, sandbox.py:229-246 *)

\* Iterations of the loop the model follows before it stops counting.
MaxVerifyIter == 6

\* What one iteration's on_result(self.execute_command(command=cmd)) does:
\* on_result returns True, returns False, or one of the two calls raises
VerifyOutcomes == {"accepted", "rejected", "raised"}

\* The call starts: elapsed = 0, sandbox.py:236
InitVerify ==
    /\ ProviderIdle
    /\ WaitIdle
    /\ RetryIdle
    /\ FileIdle
    /\ CmdIdle
    /\ vTimeout \in Timeouts
    /\ vInterval \in Intervals
    /\ vElapsed = 0
    /\ vIter = 0
    /\ vState = "loop"

\* sandbox.py:237-244: one iteration; time.sleep(interval) and
\* elapsed += interval are statements of the except clause
VerifyIteration ==
    /\ vState = "loop"
    /\ vElapsed < vTimeout
    /\ vIter < MaxVerifyIter
    /\ vIter' = vIter + 1
    /\ \E o \in VerifyOutcomes :
          /\ vState' = IF o = "accepted" THEN "true" ELSE "loop"
          /\ vElapsed' = IF o = "raised" THEN vElapsed + vInterval
                         ELSE vElapsed
    /\ UNCHANGED <<hostVars, provVars, ctlVars, histVars, instVars, cfgVars,
                   mapVars, allocVars, waitVars, retryVars, fileVars, cmdVars,
                   vTimeout, vInterval>>

\* sandbox.py:237 and 246: the loop condition is false, return False
VerifyExit ==
    /\ vState = "loop"
    /\ ~(vElapsed < vTimeout)
    /\ vState' = "false"
    /\ UNCHANGED <<hostVars, provVars, ctlVars, histVars, instVars, cfgVars,
                   mapVars, allocVars, waitVars, retryVars, fileVars, cmdVars,
                   vTimeout, vInterval, vElapsed, vIter>>

NextVerify ==
    \/ VerifyIteration
    \/ VerifyExit

SpecVerify == InitVerify /\ [][NextVerify]_vars

----------------------------------------------------------------------------
(* Properties *)

Min(S) == CHOOSE x \in S : \A y \in S : x <= y

\* C1: while processes provision concurrently, no host port is assigned to
\* two instances: the ports a process has allocated are published by no
\* running container when it launches its own, and the port maps of the
\* instances that run a container are pairwise disjoint, as are the ports the
\* running containers publish.
C1_NoSharedHostPort ==
    /\ \A p \in Procs :
          pc[p] = "run" => Range(ports[p]) \cap DockerPorts = {}
    /\ \A p, q \in Procs :
          p # q /\ IsRunning(container[p]) /\ IsRunning(container[q])
             => Range(ports[p]) \cap Range(ports[q]) = {}
    /\ \A c1, c2 \in RunningContainers :
          c1 # c2 => c1.hostPorts \cap c2.hostPorts = {}

\* Two instances run at once, the second on ports moved past the first's.
C1_Witness ==
    \E p, q \in Procs :
        /\ p # q
        /\ IsRunning(container[p]) /\ IsRunning(container[q])
        /\ ports[p][EndpointPort] # ports[q][EndpointPort]
        /\ pc[p] = "idle" /\ pc[q] = "idle"

LockedSteps == {"image", "alloc", "run"}

\* C2: the process holds the file lock at every step from the image check and
\* the enumeration of used ports, through the allocation of every port, until
\* the container is launched; no two processes are inside that sequence at
\* once.
C2_LockHeldThroughLaunch ==
    /\ \A p \in Procs : pc[p] \in LockedSteps => lock = {p}
    /\ \A p, q \in Procs :
          p # q => ~(pc[p] \in LockedSteps /\ pc[q] \in LockedSteps)

\* One process is about to launch while another waits for the lock.
C2_Witness ==
    \E p, q \in Procs : p # q /\ pc[p] = "run" /\ pc[q] = "lock"

FreePorts(start, used) == {q \in start..LargestPort : q \notin used}

\* C3: _get_available_port(start) returns the smallest port >= start that is
\* not used, for every start up to 65535, and fails only when no port in
\* start..65535 is free.
C3_SmallestFreePort ==
    \A r \in aResult :
        IF FreePorts(aStart, aUsed) = {}
        THEN ~r.ok
        ELSE r.ok /\ r.port = Min(FreePorts(aStart, aUsed))

ExceptionKinds ==
    {"LockTimeout", "ImageError", "PortAllocationError", "RunError",
     "TimeoutError"}

\* start_emulator has raised an Exception to its caller, and nothing has run
\* in the caller yet.
StartRaised(p) ==
    /\ err[p] \in ExceptionKinds
    /\ \/ pc[p] = "handler"
       \/ pc[p] = "idle" /\ op[p] \in {"start", "reset", "env_reset"}

C5_FailedInitLeavesNothing ==
    \A p \in Procs :
        inst[p] = "failed" =>
            /\ container[p] = NoContainer
            /\ ~IsRunning(launched[p])

\* C5 amended: when start_emulator fails during construction, stop_emulator
\* is called on the provider before the error is re-raised (it finds the
\* container this construction launched and clears the handle), no instance
\* is returned, and the container is still running only if Docker's stop or
\* remove raised in stop_emulator and the cleanup of start_emulator did not
\* succeed either.
C5_FailedInitStopsProvider ==
    \A p \in Procs :
        inst[p] = "failed" =>
            /\ container[p] = NoContainer
            /\ stopTarget[p] = launched[p]
            /\ baseUrl[p] = 0
            /\ IsRunning(launched[p]) =>
                  teardown[p] = "failed" /\ cleanup[p] # "ok"

\* The cleanup of start_emulator failed and stop_emulator removed the
\* container.
C5_Witness ==
    \E p \in Procs :
        /\ inst[p] = "failed"
        /\ launched[p] # NoContainer
        /\ cleanup[p] = "failed" /\ teardown[p] = "ok"
        /\ ~Exists(launched[p])

\* C6: the constructor hands out the instance only in a step in which the
\* health probe of the container it launched has answered, and every HTTP
\* request of a capability call is issued through a handed-out instance.
C6_HandedOnlyWhenReady ==
    /\ [](\A p \in Procs : sent[p].port # 0 => inst[p] = "handed")
    /\ [][\A p \in Procs :
            inst[p] # "handed" /\ inst'[p] = "handed" =>
                /\ launched'[p] # NoContainer
                /\ probed'[p] = launched'[p]
                /\ sent'[p].port = 0]_vars

\* A capability call was answered through a handed-out instance.
C6_Witness ==
    \E p \in Procs :
        /\ inst[p] = "handed" /\ op[p] = "request" /\ err[p] = "none"
        /\ probed[p] = container[p] /\ sent[p].port = baseUrl[p]

\* stop_emulator has returned to its caller.
AfterStop(p) == pc[p] = "idle" /\ op[p] = "stop"

\* C7 as claimed: stop_emulator never raises and never leaves the container
\* it was called on running.
C7_StopLeavesNothingRunning ==
    \A p \in Procs :
        AfterStop(p) => err[p] = "none" /\ ~IsRunning(stopTarget[p])

\* C7 amended: stop_emulator never raises and clears the handle; called twice
\* in a row or before anything was started it calls nothing in Docker; the
\* container it was called on is stopped and removed when Docker's stop and
\* remove succeeded, and is left running only when that teardown raised (the
\* error is logged).
C7_StopIdempotentBestEffort ==
    \A p \in Procs :
        AfterStop(p) =>
            /\ err[p] = "none"
            /\ container[p] = NoContainer
            /\ teardown[p] = "ok" => ~Exists(stopTarget[p])
            /\ IsRunning(stopTarget[p]) => teardown[p] = "failed"
            /\ prevOp[p] \in {"new", "stop"} =>
                  stopTarget[p] = NoContainer /\ teardown[p] = "none"

\* stop_emulator was called twice in a row after a container had been
\* launched, and once after a start_emulator that failed.
C7_Witness ==
    \E p \in Procs :
        /\ AfterStop(p) /\ prevOp[p] = "stop"
        /\ launches[p] > 0 /\ cleanup[p] # "none"

\* C8: close() and kill() never raise, and a close() or kill() that follows
\* a close() or kill() changes nothing: it finds no container to stop.
C8_CloseKillIdempotent ==
    \A p \in Procs :
        pc[p] = "idle" /\ op[p] \in {"close", "kill"} =>
            /\ err[p] = "none"
            /\ prevOp[p] \in {"close", "kill"} =>
                  stopTarget[p] = NoContainer /\ teardown[p] = "none"

\* C9: after close() or kill() has torn the instance down, no HTTP request
\* is issued to the former base URL.
C9_NoRequestAfterClose ==
    \A p \in Procs : ~sent[p].closed

\* C10: get_ip_address on a provider on which start_emulator has not run
\* fails with the not-started error.
C10_NotStartedError ==
    \A p \in Procs :
        op[p] = "get_ip" /\ prevOp[p] = "new" => err[p] = "RuntimeError"

\* C11 as claimed: when check_health fails K times and succeeds on call K+1,
\* and interval x (K+1) < timeout, _wait_for_vm_ready reports ready, and it
\* has issued exactly K+1 probes when it does.
C11_ReadyAfterKPlusOneProbes ==
    wConfigured /\ ~wNever /\ wInterval * (wPlan + 1) < wTimeout =>
        /\ wProbes <= wPlan + 1
        /\ wState # "timeout"
        /\ wState = "ready" => wProbes = wPlan + 1

\* C11 amended: when check_health fails K times and succeeds on call K+1,
\* _wait_for_vm_ready never issues more than K+1 probes, has issued exactly
\* K+1 when it reports ready, and raises the timeout only if K x interval
\* plus the time the failed probes themselves took has reached timeout.
C11_ReadyWithinElapsedBudget ==
    wConfigured /\ ~wNever =>
        /\ wProbes <= wPlan + 1
        /\ wState = "ready" => wProbes = wPlan + 1
        /\ wState = "timeout" =>
              wPlan * wInterval + wProbeTime >= wTimeout

\* Ready at the third probe, after two failed probes that took time.
C11_Witness ==
    /\ wState = "ready" /\ wConfigured
    /\ wPlan = MaxFail /\ wProbes = wPlan + 1
    /\ wProbeTime > 0
    /\ wInterval * (wPlan + 1) < wTimeout

\* C12: when no probe ever succeeds, _wait_for_vm_ready never reports ready
\* and ends with the timeout error; the timeout error is raised only once
\* at least `timeout` has elapsed since polling began.
C12_TimeoutNotBeforeDeadline ==
    /\ [](wState = "timeout" => wNow >= wTimeout)
    /\ [](wConfigured /\ wNever => wState # "ready")
    /\ (wConfigured /\ wNever /\ wState = "test" => <>(wState = "timeout"))

\* The timeout error after several probes that all failed.
C12_Witness ==
    /\ wState = "timeout" /\ wConfigured /\ wNever
    /\ wProbes > 1 /\ wNow >= wTimeout /\ wTimeout > 0

Is2xx(status) == status \div 100 = 2

\* C13: the poller takes a probe for a success exactly when it got a
\* response with a 2xx status; an exception or any other status is not-yet-
\* ready.
C13_Every2xxIsSuccess ==
    \A o \in wResp :
        o.verdict <=> (~o.resp.raised /\ Is2xx(o.resp.status))

\* C14: with the healthcheck endpoint or port not configured, the poller
\* issues no probe and never ends with the timeout error, whatever the
\* timeout is; it has logged the warning when it reports ready.
C14_UnconfiguredAlwaysReady ==
    ~wConfigured =>
        /\ wProbes = 0
        /\ wState # "timeout"
        /\ wState = "ready" => wWarned

\* The loop was left by `break`: break_on_timeout is set and the last
\* invocation raised a TimeoutError.
TimeoutBreak == rBreak /\ \E e \in rLast : e.type = "TimeoutError"

\* C15: the wrapper returns at the first invocation that succeeds, with that
\* invocation's value and one logged retry per earlier failure (n-1 when it is
\* the n-th of retry_times = n), and never makes more than n invocations;
\* when every invocation fails with an error that does not stop the retries,
\* it raises after exactly n invocations.
C15_ExactlyNInvocations ==
    /\ rCalls <= rTimes
    /\ rState = "returned" =>
          /\ ~rResult.raised
          /\ rResult.value = {o.answer : o \in rOutcomes}
          /\ rRetries = rCalls - 1
    /\ rState = "raised" /\ ~TimeoutBreak => rCalls = rTimes

\* The n-th invocation succeeded after n-1 failures.
C15_Witness ==
    /\ rState = "returned"
    /\ rTimes = MaxRetryTimes /\ rCalls = rTimes
    /\ rRetries = rTimes - 1

\* C16: when all n attempts have failed, the error raised is an aggregate
\* error that names the wrapped call and the attempt count and has the last
\* underlying error as its cause.
C16_AggregateErrorWithCause ==
    rState = "raised" /\ ~TimeoutBreak /\ rTimes > 0 =>
        \E e \in rResult.error :
            /\ e.func = FuncName
            /\ e.attempts = rTimes
            /\ e.cause = rLast

\* C17: with break_on_timeout set, an invocation that raises a TimeoutError
\* is the last one: no sleep and no retry follows it, the wrapper does not
\* return, and when it was the first invocation exactly 1 attempt was made
\* and nothing was slept.
C17_TimeoutStopsRetries ==
    \A e \in rLast :
        rBreak /\ e.type = "TimeoutError" =>
            /\ rState \in {"broke", "raised"}
            /\ e.call = rCalls
            /\ rSleeps = rCalls - 1
            /\ rRetries = rCalls - 1

\* retry_times = 3: the first invocation raised a TimeoutError and the
\* wrapper raised after that single attempt.
C17_Witness ==
    /\ rTimes = MaxRetryTimes /\ rBreak
    /\ rState = "raised" /\ rCalls = 1 /\ rSleeps = 0 /\ rRetries = 0
    /\ \E e \in rLast : e.type = "TimeoutError"

\* C18: when the retries were stopped by a TimeoutError, the error that
\* reaches the caller is that TimeoutError.
C18_TimeoutErrorPropagates ==
    rState = "raised" /\ TimeoutBreak => rResult.error = rLast

\* C19: an invocation of _make_request that got a 2xx response returns it,
\* and one that got any other response raises an error that carries the
\* method, the URL, the status and the response body.
C19_Non2xxRaises ==
    \A o \in rOutcomes :
        o.answer.raises = "no" =>
            IF Is2xx(o.answer.status)
            THEN ~o.raised
            ELSE /\ o.raised
                 /\ o.error.method = rMethod
                 /\ o.error.url = RequestUrl
                 /\ o.error.status = o.answer.status
                 /\ o.answer.body # "" => o.error.body = o.answer.body

\* C20: every HTTP request of _make_request, at every attempt and whatever
\* headers the caller passed, carries X-Session-Password with the session
\* password of the instance.
C20_EveryRequestCarriesPassword ==
    /\ rCalls > 0 => rSent # {}
    /\ \A h \in rSent :
          /\ "X-Session-Password" \in DOMAIN h
          /\ h["X-Session-Password"] = rPassword

\* A retried request of a caller that passed its own X-Session-Password.
C20_Witness ==
    /\ rCalls > 1 /\ rRetries > 0
    /\ rHeaders.given /\ HeaderNames \subseteq rHeaders.names
    /\ rPassword # ""
    /\ \E h \in rSent : DOMAIN h = HeaderNames

\* C21: after upload_file_to_remote(local, remote) and then
\* download_file_from_remote(remote, local2) have both returned, local2 holds
\* exactly the bytes of the local file.
C21_UploadDownloadRoundTrip ==
    fState = "downloaded" => fLocal2 = {fLocal}

\* C22: once the first start has launched its container, no later operation
\* on the instance (get_ip_address, reset, stop_emulator, close, capability
\* calls) changes the host port mapped to any internal port.
C22_PortMapImmutable ==
    [][\A p \in Procs :
          launches[p] > 0 /\ op'[p] \notin {"start", "init"}
             => ports'[p] = ports[p]]_vars

\* start_emulator or reset of a bare provider has launched its container, and
\* get_ip_address was called next.
IpAfterStart(p) ==
    /\ pc[p] = "idle" /\ op[p] = "get_ip"
    /\ prevOp[p] \in {"start", "reset"}
    /\ launched[p] # NoContainer

\* C23: after a start_emulator that launched its container, get_ip_address
\* returns a port map whose keys are ports_to_forward, in which every internal
\* port is mapped to a host port that is not below it and that was not in use
\* when it was allocated; the base URL of an instance is built on such a port.
C23_PortMapOfFreePorts ==
    \A p \in Procs :
        /\ IpAfterStart(p) =>
              /\ err[p] = "none"
              /\ \E r \in ipAddr[p] :
                    /\ ipAddr[p] = {r}
                    /\ DOMAIN r = PortsToForward
                    /\ \A q \in PortsToForward :
                          r[q] >= q /\ r[q] \notin usedAt[p][q]
        /\ inst[p] = "handed" /\ op[p] = "init" =>
              /\ baseUrl[p] >= EndpointPort
              /\ baseUrl[p] \notin usedAt[p][EndpointPort]

\* The endpoint port was in use, the start moved it up and succeeded, and
\* get_ip_address returned the moved port.
C23_Witness ==
    \E p \in Procs :
        /\ IpAfterStart(p) /\ IsRunning(container[p])
        /\ probed[p] = launched[p]
        /\ \E r \in ipAddr[p] : r[EndpointPort] > EndpointPort
        /\ EndpointPort \in usedAt[p][EndpointPort]

\* C24: with an os_type other than Ubuntu or a provider_type other than
\* docker the constructor fails with the not-implemented error without ever
\* entering start_emulator: no lock is taken, no port is allocated, no
\* container is launched and no instance is handed out.
C24_UnsupportedFailsFast ==
    osType # "Ubuntu" \/ providerType # "docker" =>
        \A p \in Procs :
            /\ pc[p] = "idle"
            /\ lock = {} /\ containers = {}
            /\ launches[p] = 0 /\ container[p] = NoContainer
            /\ ports[p] = PostInitPorts
            /\ inst[p] # "handed"
            /\ op[p] # "new" =>
                  inst[p] = "failed" /\ err[p] = "NotImplementedError"

\* The constructor was called for Windows on docker and has failed.
C24_Witness ==
    /\ osType = "Windows" /\ providerType = "docker"
    /\ \E p \in Procs :
          /\ op[p] = "init" /\ inst[p] = "failed"
          /\ err[p] = "NotImplementedError"

\* C25: a start_emulator that could not take the lock fails with the
\* lock-timeout error, which reaches the caller; it does not try the lock
\* again, holds no lock, has allocated no port and has launched no container.
C25_LockTimeoutSurfaces ==
    \A p \in Procs :
        err[p] = "LockTimeout" =>
            /\ pc[p] \in {"except", "idle"}
            /\ p \notin lock
            /\ ports[p] = PostInitPorts
            /\ launches[p] = 0
            /\ launched[p] = NoContainer /\ container[p] = NoContainer

\* The lock timeout has reached the caller while another process provisioned.
C25_Witness ==
    \E p, q \in Procs :
        /\ p # q
        /\ err[p] = "LockTimeout" /\ pc[p] = "idle" /\ op[p] = "start"
        /\ launches[q] > 0

ResetContexts == {"reset", "envreset"}

\* C26 as claimed: while reset re-provisions, the provider holds no container
\* and the container it held before is stopped and removed before the ports
\* are re-allocated.
C26_ResetRemovesOldFirst ==
    \A p \in Procs :
        ctx[p] \in ResetContexts /\ pc[p] \in {"alloc", "run"} =>
            /\ container[p] = NoContainer
            /\ ~Exists(stopTarget[p])

\* C26 amended: reset is stop_emulator followed by start_emulator: its first
\* step has exactly the effect of a stop_emulator call on the provider (the
\* handle is cleared, stop and remove are attempted on the old container,
\* which is gone when they succeeded, the port map is untouched) followed by
\* the entry of start_emulator; the provider holds no container from then
\* until the new one is launched, so it never holds two.
C26_ResetIsStopThenStart ==
    /\ [](\A p \in Procs :
             ctx[p] \in ResetContexts /\ pc[p] \in LockedSteps \cup {"lock"}
                => container[p] = NoContainer)
    /\ [][\A p \in Procs :
             pc[p] = "idle" /\ pc'[p] = "lock" /\ ctx'[p] \in ResetContexts =>
                /\ stopTarget'[p] = container[p]
                /\ container'[p] = NoContainer
                /\ ports'[p] = ports[p]
                /\ \E o \in StopOutcomes(p) :
                      containers' = o.world /\ teardown'[p] = o.td
                /\ teardown'[p] = "ok" =>
                      \A c \in containers' : c.id # container[p]
                /\ launched'[p] = NoContainer
                /\ err'[p] = "none"]_vars

\* reset has returned with a new container after it removed the old one.
C26_Witness ==
    \E p \in Procs :
        /\ pc[p] = "idle" /\ op[p] = "reset" /\ err[p] = "none"
        /\ stopTarget[p] # NoContainer /\ teardown[p] = "ok"
        /\ ~Exists(stopTarget[p])
        /\ container[p] = launched[p] /\ IsRunning(container[p])
        /\ container[p] # stopTarget[p]

\* C27: when a KeyboardInterrupt raised while start_emulator was polling has
\* reached the caller, stop_emulator has been called on the container that
\* start had launched.
C27_InterruptTearsDown ==
    \A p \in Procs :
        err[p] = "KeyboardInterrupt" /\ pc[p] = "idle"
           /\ launched[p] # NoContainer =>
              /\ stopTarget[p] = launched[p]
              /\ container[p] = NoContainer

SnapshotOps == {"save_state", "revert_to_snapshot"}

\* C28: every call of save_state or revert_to_snapshot fails with the
\* not-implemented error and leaves the container handle, the port map and
\* the containers as they were.
C28_SnapshotsUnsupported ==
    [][\A p \in Procs :
          op'[p] \in SnapshotOps =>
             /\ err'[p] = "NotImplementedError"
             /\ container'[p] = container[p]
             /\ ports'[p] = ports[p]
             /\ containers' = containers]_vars

\* save_state was called on a provider whose container is running, after a
\* revert_to_snapshot.
C28_Witness ==
    \E p \in Procs :
        /\ op[p] = "save_state" /\ prevOp[p] = "revert_to_snapshot"
        /\ err[p] = "NotImplementedError"
        /\ IsRunning(container[p])

\* C29: the process does not hold the lock while it checks for the image and
\* pulls it.
C29_ImageBeforeLock ==
    \A p \in Procs : pc[p] = "image" => p \notin lock

\* C30: the process does not hold the lock while it polls for readiness.
C30_LockReleasedBeforePoll ==
    \A p \in Procs : pc[p] = "poll" => p \notin lock

\* One process polls while another one holds the lock and provisions.
C30_Witness ==
    \E p, q \in Procs :
        /\ p # q
        /\ pc[p] = "poll" /\ IsRunning(container[p])
        /\ lock = {q} /\ pc[q] \in LockedSteps

\* Every invocation of the call got a response, and each response carried a
\* status outside 200..299.
OnlyNon2xxAnswers ==
    /\ rStatuses # {}
    /\ \A st \in rStatuses : st # 0 /\ ~Is2xx(st)

\* C31: when every answer to a _make_request call is a response with a
\* non-2xx status, the call ends by raising after exactly retry_times HTTP
\* requests separated by retry_times - 1 waits; no such answer is returned as
\* a success.
C31_ErrorStatusExhaustsRetries ==
    (rTimes >= 1 /\ rState \in {"returned", "raised"} /\ OnlyNon2xxAnswers) =>
        /\ rState = "raised" /\ rResult.raised
        /\ rCalls = rTimes
        /\ rSleeps = rTimes - 1

\* C32: when the allocation loop of start_emulator has assigned every port,
\* the host ports assigned to distinct internal ports are pairwise distinct.
C32_DistinctHostPorts ==
    \A p \in Procs :
        pc[p] = "run" =>
            \A a, b \in DOMAIN ports[p] : a # b => ports[p][a] # ports[p][b]

\* C33: after reset() of an instance has returned successfully, base_url
\* addresses the host port that the provider's port map assigns to the
\* endpoint port.
C33_BaseUrlFollowsReset ==
    \A p \in Procs :
        HasInstance(p) /\ op[p] = "env_reset" /\ err[p] = "none" =>
            baseUrl[p] = ports[p][EndpointPort]

\* C34: whenever no call is running on a provider, every running container
\* that the provider launched is the one provider.container refers to.
C34_NoOrphanContainer ==
    \A p \in Procs :
        pc[p] = "idle" =>
            \A c \in RunningContainers : c.id[1] = p => c.id = container[p]

\* C35: whenever no call is running on a provider and provider.container is
\* set, the container it refers to exists and is running.
C35_HandleRefersToLiveContainer ==
    \A p \in Procs :
        pc[p] = "idle" /\ container[p] # NoContainer =>
            IsRunning(container[p])

\* C36: every call of close() or kill() on an instance calls
\* provider.stop_emulator: it acts on the handle the provider held and leaves
\* the provider without one.
C36_CloseAlwaysStopsProvider ==
    [][\A p \in Procs :
          op'[p] \in {"close", "kill"} =>
             /\ stopTarget'[p] = container[p]
             /\ container'[p] = NoContainer]_vars

\* C38: a process whose start_emulator has returned or raised, or has reached
\* its except clause, does not hold the lock.
C38_LockReleasedOnEveryExit ==
    \A p \in Procs : pc[p] \in {"idle", "except", "handler"} => p \notin lock

\* A start_emulator has failed inside its `with lock:` block and raised, and
\* another process holds the lock afterwards.
C38_Witness ==
    \E p, q \in Procs :
        /\ p # q
        /\ pc[p] = "idle" /\ op[p] = "start"
        /\ err[p] \in {"ImageError", "PortAllocationError", "RunError"}
        /\ lock = {q} /\ pc[q] \in LockedSteps

\* C37: when upload_file_to_remote has succeeded, on whichever attempt of the
\* retry wrapper, the bytes stored at the remote path are the complete
\* content of the local file.
C37_RetriedUploadSendsWholeFile ==
    fState = "uploaded" => fRemote = ServerStore(fLocal)

\* C39: execute_command never raises; when its request failed it returns a
\* CommandResponse with status ERROR that carries the error.
C39_ExecuteCommandNeverRaises ==
    /\ xState # "raised"
    /\ xState = "returned" /\ rResult.raised =>
          xResult.status = "ERROR" /\ xResult.error # "none"

\* timeout / interval, rounded up
IterationBound(timeout, interval) == (timeout + interval - 1) \div interval

\* C40: _wait_and_verify starts at most timeout / interval iterations.
C40_BoundedIterations ==
    vState # "idle" => vIter <= IterationBound(vTimeout, vInterval)

====
